---------------------------- MODULE Spec2Model ----------------------------
(***************************************************************************)
(* Mahjong Solitaire engine (src/src/game/engine.ts, first revision in the *)
(* file, lines 1-462), with the layout catalog and the tile catalog        *)
(* (src/src/game/layouts.ts).                                              *)
(*                                                                         *)
(* Coordinates are kept in tenths of a grid unit, so that the half-integer *)
(* positions (6.5 -> 65) and the tolerances 0.9 and 1.1 (9 and 11) are     *)
(* exact integers.  A tile id `tile-N` is modelled by the number N.        *)
(***************************************************************************)
EXTENDS Integers, Sequences, FiniteSets, TLC

VARIABLES
    tiles,          \* board.tiles: the sequence of TileInstance records
    layout,         \* board.layout: the id of the layout, "none" before a game
    tileIdCounter,  \* the module-level counter behind generateTileId
    history,        \* GameState.history: the snapshots pushed before each move
    op,             \* the operation that produced this state
    arg,            \* the arguments of that operation
    ret             \* what that operation returned, when it is not the board

vars == <<tiles, layout, tileIdCounter, history, op, arg, ret>>

-----------------------------------------------------------------------------
(* Small helpers on sequences *)

Abs(n) == IF n < 0 THEN -n ELSE n

Range(s) == {s[i] : i \in 1..Len(s)}

RECURSIVE Flatten(_)
Flatten(ss) == IF ss = <<>> THEN <<>> ELSE Head(ss) \o Flatten(Tail(ss))

\* [a, b, c] with positions i and j exchanged
SwapAt(s, i, j) == [s EXCEPT ![i] = s[j], ![j] = s[i]]

\* the sequence s without its element at index i (Array.splice(i, 1))
RemoveAt(s, i) == SubSeq(s, 1, i - 1) \o SubSeq(s, i + 1, Len(s))

\* Array.indexOf: the first index holding v (0 when absent)
IndexOf(s, v) ==
    IF \E i \in 1..Len(s) : s[i] = v
    THEN CHOOSE i \in 1..Len(s) : s[i] = v /\ \A j \in 1..(i - 1) : s[j] # v
    ELSE 0

-----------------------------------------------------------------------------
(* Tile catalog: src/src/game/layouts.ts 289-407 *)

TileType(id, category, matchGroup) ==
    [id |-> id, category |-> category, matchGroup |-> matchGroup]

circles ==
    << TileType("circles-1", "circles", ""), TileType("circles-2", "circles", ""),
       TileType("circles-3", "circles", ""), TileType("circles-4", "circles", ""),
       TileType("circles-5", "circles", ""), TileType("circles-6", "circles", ""),
       TileType("circles-7", "circles", ""), TileType("circles-8", "circles", ""),
       TileType("circles-9", "circles", "") >>

bamboo ==
    << TileType("bamboo-1", "bamboo", ""), TileType("bamboo-2", "bamboo", ""),
       TileType("bamboo-3", "bamboo", ""), TileType("bamboo-4", "bamboo", ""),
       TileType("bamboo-5", "bamboo", ""), TileType("bamboo-6", "bamboo", ""),
       TileType("bamboo-7", "bamboo", ""), TileType("bamboo-8", "bamboo", ""),
       TileType("bamboo-9", "bamboo", "") >>

characters ==
    << TileType("characters-1", "characters", ""), TileType("characters-2", "characters", ""),
       TileType("characters-3", "characters", ""), TileType("characters-4", "characters", ""),
       TileType("characters-5", "characters", ""), TileType("characters-6", "characters", ""),
       TileType("characters-7", "characters", ""), TileType("characters-8", "characters", ""),
       TileType("characters-9", "characters", "") >>

winds ==
    << TileType("wind-east", "winds", ""), TileType("wind-south", "winds", ""),
       TileType("wind-west", "winds", ""), TileType("wind-north", "winds", "") >>

dragons ==
    << TileType("dragon-red", "dragons", ""), TileType("dragon-green", "dragons", ""),
       TileType("dragon-white", "dragons", "") >>

seasons ==
    << TileType("season-spring", "seasons", "seasons"),
       TileType("season-summer", "seasons", "seasons"),
       TileType("season-autumn", "seasons", "seasons"),
       TileType("season-winter", "seasons", "seasons") >>

flowers ==
    << TileType("flower-plum", "flowers", "flowers"),
       TileType("flower-orchid", "flowers", "flowers"),
       TileType("flower-chrysanthemum", "flowers", "flowers"),
       TileType("flower-bamboo", "flowers", "flowers") >>

ALL_TILE_TYPES == circles \o bamboo \o characters \o winds \o dragons \o seasons \o flowers

STANDARD_TILES == circles \o bamboo \o characters \o winds \o dragons

\* the value of a failed lookup (JavaScript undefined)
Undefined == TileType("", "", "")

getTileTypeById(typeId) ==
    LET found == {n \in 1..Len(ALL_TILE_TYPES) : ALL_TILE_TYPES[n].id = typeId} IN
    IF found = {} THEN Undefined
    ELSE ALL_TILE_TYPES[CHOOSE n \in found : \A m \in found : n <= m]

\* tilesMatch by id alone
tilesMatch_IdOnly(type1, type2) == type1.id = type2.id

tilesMatch(type1, type2) ==
    IF type1.id = type2.id THEN TRUE
    ELSE IF type1.matchGroup # "" /\ type2.matchGroup # ""
            /\ type1.matchGroup = type2.matchGroup THEN TRUE
    ELSE FALSE

-----------------------------------------------------------------------------
(* Layout catalog: src/src/game/layouts.ts 17-287 *)

Pos(x, y, z) == [x |-> x, y |-> y, z |-> z]

\* for (y = y0; y < y1; y++) for (x = x0; x < x1; x++) push {x, y, z}
LoopYX(y0, y1, x0, x1, z) ==
    [k \in 1..((y1 - y0) * (x1 - x0)) |->
        Pos(10 * (x0 + ((k - 1) % (x1 - x0))), 10 * (y0 + ((k - 1) \div (x1 - x0))), z)]

\* for (x = x0; x < x1; x++) for (y = y0; y < y1; y++) push {x, y, z}
LoopXY(x0, x1, y0, y1, z) ==
    [k \in 1..((x1 - x0) * (y1 - y0)) |->
        Pos(10 * (x0 + ((k - 1) \div (y1 - y0))), 10 * (y0 + ((k - 1) % (y1 - y0))), z)]

\* positions.slice(0, n)
Slice(s, n) == SubSeq(s, 1, IF Len(s) < n THEN Len(s) ELSE n)

\* the full deck: 34 standard types x 4 + 8 bonus tiles
FullSetSize == 144

\* generateRow(y, startX, count), already as layer-0 positions
generateRow(y, startX, count) == LoopYX(y, y + 1, startX, startX + count, 0)

generateTurtlePositions ==
    Slice(   << Pos(30, 0, 0), Pos(40, 0, 0) >>
          \o generateRow(1, 1, 12) \o generateRow(2, 0, 14) \o generateRow(3, 0, 14)
          \o generateRow(4, 0, 14) \o generateRow(5, 0, 14) \o generateRow(6, 1, 12)
          \o << Pos(30, 70, 0), Pos(40, 70, 0) >>
          \o LoopYX(1, 7, 2, 12, 1)
          \o LoopYX(2, 6, 4, 10, 2)
          \o LoopYX(3, 5, 5, 9, 3)
          \o << Pos(60, 30, 4), Pos(70, 30, 4), Pos(60, 40, 4), Pos(70, 40, 4) >>
          \o << Pos(65, 35, 5) >>,
          FullSetSize)

generatePyramidPositions ==
    Slice(   LoopYX(0, 12, 0, 12, 0) \o LoopYX(1, 11, 1, 11, 1) \o LoopYX(2, 10, 2, 10, 2)
          \o LoopYX(3, 9, 3, 9, 3) \o LoopYX(4, 8, 4, 8, 4),
          FullSetSize)

generateDragonPositions ==
    Slice(   LoopXY(0, 16, 0, 3, 0)
          \o LoopYX(3, 6, 13, 16, 0)
          \o LoopXY(0, 16, 6, 9, 0)
          \o LoopXY(2, 14, 1, 2, 1)
          \o LoopXY(2, 14, 7, 8, 1)
          \o Flatten([k \in 1..8 |-> << Pos(10 * (k + 3), 10, 2), Pos(10 * (k + 3), 70, 2) >>]),
          FullSetSize)

towers == << <<0, 0>>, <<0, 7>>, <<12, 0>>, <<12, 7>> >>

generateFortressPositions ==
    Slice(   LoopYX(0, 8, 0, 14, 0)
          \o Flatten([t \in 1..4 |->
                 << Pos(10 * towers[t][1], 10 * towers[t][2], 1),
                    Pos(10 * (towers[t][1] + 1), 10 * towers[t][2], 1) >>])
          \o LoopYX(2, 6, 4, 10, 1)
          \o LoopYX(3, 5, 5, 9, 2)
          \o [t \in 1..4 |-> Pos(10 * towers[t][1] + 5, 10 * towers[t][2] + 5, 2)],
          FullSetSize)

pillars == << 1, 5, 9, 13, 17 >>

generateBridgePositions ==
    Slice(   LoopXY(0, 18, 2, 6, 0)
          \o Flatten([p \in 1..5 |->
                 << Pos(10 * pillars[p], 0, 0), Pos(10 * pillars[p], 70, 0),
                    Pos(10 * pillars[p], 0, 0), Pos(10 * pillars[p], 70, 0) >>])
          \o Flatten([k \in 1..8 |->
                 << Pos(10 * (2 * k - 1), 20, 1), Pos(10 * (2 * k - 1), 50, 1) >>])
          \o Flatten([k \in 1..4 |->
                 << Pos(10 * (8 + ((k - 1) % 2)), 10 * (3 + ((k - 1) \div 2)), 1),
                    Pos(10 * (8 + ((k - 1) % 2)), 10 * (3 + ((k - 1) \div 2)), 2) >>]),
          FullSetSize)

Layout(id, positions) == [id |-> id, positions |-> positions]

LAYOUTS ==
    << Layout("turtle", generateTurtlePositions),
       Layout("pyramid", generatePyramidPositions),
       Layout("dragon", generateDragonPositions),
       Layout("fortress", generateFortressPositions),
       Layout("bridge", generateBridgePositions) >>

\* the lookup taking the last layout for an id the catalog does not hold
FindLayout_Last(layoutId) ==
    IF \E i \in 1..Len(LAYOUTS) : LAYOUTS[i].id = layoutId
    THEN CHOOSE i \in 1..Len(LAYOUTS) : LAYOUTS[i].id = layoutId
    ELSE Len(LAYOUTS)

\* LAYOUTS.find(l => l.id === layoutId) || LAYOUTS[0], as an index into LAYOUTS
FindLayout(layoutId) ==
    IF \E i \in 1..Len(LAYOUTS) : LAYOUTS[i].id = layoutId
    THEN CHOOSE i \in 1..Len(LAYOUTS) : LAYOUTS[i].id = layoutId
    ELSE 1

validateLayout(l) == Len(l.positions) >= 140 /\ Len(l.positions) <= FullSetSize

-----------------------------------------------------------------------------
(* Accessibility predicate and match finder: src/src/game/engine.ts 38-129 *)

\* |dx|, |dy| below 0.9 grid units count as the same cell
OverlapTolerance == 9

\* a side neighbour lies less than 1.1 grid units away
SideReach == 11

Tile(id, typeId, pos, isRemoved) ==
    [id |-> id, typeId |-> typeId, x |-> pos.x, y |-> pos.y, z |-> pos.z,
     isRemoved |-> isRemoved]

Active(ts) == LET NotRemoved(t) == ~t.isRemoved IN SelectSeq(ts, NotRemoved)

Removed(ts) == LET IsRemoved(t) == t.isRemoved IN SelectSeq(ts, IsRemoved)

\* hasBlockingTop looking at the next layer only
hasBlockingTop_NextLayer(tile, activeTiles) ==
    \E i \in 1..Len(activeTiles) :
        LET other == activeTiles[i] IN
           /\ other.id # tile.id
           /\ other.z = tile.z + 1
           /\ Abs(other.x - tile.x) < OverlapTolerance
           /\ Abs(other.y - tile.y) < OverlapTolerance

hasBlockingTop(tile, activeTiles) ==
    \E i \in 1..Len(activeTiles) :
        LET other == activeTiles[i] IN
           /\ other.id # tile.id
           /\ other.z > tile.z
           /\ Abs(other.x - tile.x) < OverlapTolerance
           /\ Abs(other.y - tile.y) < OverlapTolerance

hasBlockingLeft(tile, activeTiles) ==
    \E i \in 1..Len(activeTiles) :
        LET other == activeTiles[i] IN
           /\ other.id # tile.id
           /\ other.z = tile.z
           /\ Abs(other.y - tile.y) < OverlapTolerance
           /\ other.x < tile.x
           /\ tile.x - other.x < SideReach

hasBlockingRight(tile, activeTiles) ==
    \E i \in 1..Len(activeTiles) :
        LET other == activeTiles[i] IN
           /\ other.id # tile.id
           /\ other.z = tile.z
           /\ Abs(other.y - tile.y) < OverlapTolerance
           /\ other.x > tile.x
           /\ other.x - tile.x < SideReach

\* isFreeTile asking for both sides open
isFreeTile_BothSides(tile, allTiles) ==
    IF tile.isRemoved THEN FALSE
    ELSE LET activeTiles == Active(allTiles) IN
         IF hasBlockingTop(tile, activeTiles) THEN FALSE
         ELSE ~hasBlockingLeft(tile, activeTiles) /\ ~hasBlockingRight(tile, activeTiles)

\* isFreeTile without the test of line 45
isFreeTile_NoRemovedTest(tile, allTiles) ==
    LET activeTiles == Active(allTiles) IN
    IF hasBlockingTop(tile, activeTiles) THEN FALSE
    ELSE ~hasBlockingLeft(tile, activeTiles) \/ ~hasBlockingRight(tile, activeTiles)

isFreeTile(tile, allTiles) ==
    IF tile.isRemoved THEN FALSE
    ELSE LET activeTiles == Active(allTiles) IN
         IF hasBlockingTop(tile, activeTiles) THEN FALSE
         ELSE ~hasBlockingLeft(tile, activeTiles) \/ ~hasBlockingRight(tile, activeTiles)

\* the pairs the double loop pushes, outer index then inner index
RECURSIVE MatchLoop(_, _)
MatchLoop(freeTiles, i) ==
    IF i > Len(freeTiles) THEN <<>>
    ELSE LET tile1 == freeTiles[i]
             type1 == getTileTypeById(tile1.typeId)
             Keep(tile2) ==
                 LET type2 == getTileTypeById(tile2.typeId) IN
                 type1 # Undefined /\ type2 # Undefined /\ tilesMatch(type1, type2)
             inner == SelectSeq(SubSeq(freeTiles, i + 1, Len(freeTiles)), Keep)
         IN  [k \in 1..Len(inner) |-> <<tile1, inner[k]>>] \o MatchLoop(freeTiles, i + 1)

\* findAllMatches pairing all the active tiles
findAllMatches_NoFreeFilter(ts) == MatchLoop(Active(ts), 1)

findAllMatches(ts) ==
    LET activeTiles == Active(ts)
        Free(t) == isFreeTile(t, activeTiles)
        freeTiles == SelectSeq(activeTiles, Free)
    IN  MatchLoop(freeTiles, 1)

\* no hint
Null == <<>>

checkWin(ts) == \A i \in 1..Len(ts) : ts[i].isRemoved

\* checkStuck without the test of line 127
checkStuck_NoWinTest(ts) == Len(findAllMatches(ts)) = 0

checkStuck(ts) ==
    IF checkWin(ts) THEN FALSE ELSE Len(findAllMatches(ts)) = 0

\* getHint naming the last pair
getHint_Last(ts) ==
    LET matches == findAllMatches(ts) IN
    IF Len(matches) = 0 THEN Null
    ELSE << matches[Len(matches)][1].id, matches[Len(matches)][2].id >>

getHint(ts) ==
    LET matches == findAllMatches(ts) IN
    IF Len(matches) = 0 THEN Null ELSE << matches[1][1].id, matches[1][2].id >>

-----------------------------------------------------------------------------
(* Board mutators: src/src/game/engine.ts 410-434 *)

\* removeTilePair marking only a tile that carries both ids
removeTilePair_BothIds(ts, tile1Id, tile2Id) ==
    [i \in 1..Len(ts) |->
        IF ts[i].id = tile1Id /\ ts[i].id = tile2Id
        THEN [ts[i] EXCEPT !.isRemoved = TRUE]
        ELSE ts[i]]

\* removeTilePair flipping the flag
removeTilePair_Flip(ts, tile1Id, tile2Id) ==
    [i \in 1..Len(ts) |->
        IF ts[i].id = tile1Id \/ ts[i].id = tile2Id
        THEN [ts[i] EXCEPT !.isRemoved = ~ts[i].isRemoved]
        ELSE ts[i]]

\* removeTilePair marking the first tile only
removeTilePair_FirstOnly(ts, tile1Id, tile2Id) ==
    [i \in 1..Len(ts) |->
        IF ts[i].id = tile1Id
        THEN [ts[i] EXCEPT !.isRemoved = TRUE]
        ELSE ts[i]]

\* lines 413-424
removeTilePair(ts, tile1Id, tile2Id) ==
    [i \in 1..Len(ts) |->
        IF ts[i].id = tile1Id \/ ts[i].id = tile2Id
        THEN [ts[i] EXCEPT !.isRemoved = TRUE]
        ELSE ts[i]]

\* undoMove handing back the current tiles
undoMove_Current(currentTiles, previousTiles) == currentTiles

undoMove(currentTiles, previousTiles) == previousTiles

-----------------------------------------------------------------------------
(* Randomness.  Math.floor(Math.random() * n) may return any value of      *)
(* 0..n-1.  A random source is either AnyRandom (every outcome of every    *)
(* draw is explored; used on small collections) or a seed <<a, b>>, which  *)
(* makes the k-th draw of an operation (a * k + b) mod n: one of the       *)
(* sequences of outcomes Math.random can produce.                          *)

AnyRandom == "any"

Rand(seed, k, n) == (seed[1] * k + seed[2]) % n

RandChoices(rng, k, n) == IF rng = AnyRandom THEN 0..(n - 1) ELSE {Rand(rng, k, n)}

\* the seeds the full-size games are dealt from
Seeds == { <<6, 43>>, <<31, 58>>, <<45, 35>> }

-----------------------------------------------------------------------------
(* Board generator: src/src/game/engine.ts 251-363 *)

TypeIds(types) == [i \in 1..Len(types) |-> types[i].id]

Repeat(v, count) == [i \in 1..count |-> v]

\* the pool built two tiles at a time
RECURSIVE DynamicPool_Pairs(_, _, _, _, _)
DynamicPool_Pairs(posCount, tilePairs, available, seed, k) ==
    IF Len(tilePairs) >= posCount \/ available = <<>> THEN [tilePairs |-> tilePairs, k |-> k]
    ELSE LET idx == Rand(seed, k, Len(available)) + 1
             type == available[idx]
             rest == RemoveAt(available, idx)
         IN  DynamicPool_Pairs(posCount, tilePairs \o Repeat(type, 2),
                               IF Len(rest) = 0 THEN STANDARD_TILES ELSE rest, seed, k + 1)

\* lines 271-283: the pool for a layout that is not a full set
RECURSIVE DynamicPool(_, _, _, _, _)
DynamicPool(posCount, tilePairs, available, seed, k) ==
    IF Len(tilePairs) >= posCount \/ available = <<>> THEN [tilePairs |-> tilePairs, k |-> k]
    ELSE LET idx == Rand(seed, k, Len(available)) + 1
             type == available[idx]
             rest == RemoveAt(available, idx)
             count == IF posCount - Len(tilePairs) >= 4 THEN 4 ELSE 2
         IN  DynamicPool(posCount, tilePairs \o Repeat(type, count),
                         IF Len(rest) = 0 THEN STANDARD_TILES ELSE rest, seed, k + 1)

\* the full set without the bonus types
FullPool_NoBonus ==
    Flatten([i \in 1..Len(STANDARD_TILES) |-> Repeat(STANDARD_TILES[i], 4)])

\* lines 264-270: the full set, 4 of each standard type then the bonus types
FullPool ==
    LET HasGroup(t) == t.matchGroup # "" IN
    Flatten([i \in 1..Len(STANDARD_TILES) |-> Repeat(STANDARD_TILES[i], 4)])
        \o SelectSeq(ALL_TILE_TYPES, HasGroup)

\* lines 286-290: for (i = length - 1; i > 0; i--) swap(arr[i], arr[random(i + 1)])
RECURSIVE FisherYates(_, _, _, _)
FisherYates(arr, i, seed, k) ==
    IF i < 2 \/ arr = <<>> THEN arr
    ELSE FisherYates(SwapAt(arr, i, Rand(seed, k, i) + 1), i - 1, seed, k + 1)

\* sorted keys of tilesByRow: Math.floor(tile.y * 10) is y in tenths
RECURSIVE SortedSeq(_)
SortedSeq(S) ==
    IF S = {} THEN <<>>
    ELSE LET m == CHOOSE v \in S : \A w \in S : v <= w IN <<m>> \o SortedSeq(S \ {m})

\* tilesByRow as a sequence of rows in rowKeys order; a row is the sequence of
\* the indices of its tiles, in collection order
TilesByRow(positions) ==
    LET rowKeys == SortedSeq({positions[i].y : i \in 1..Len(positions)})
        idx == [i \in 1..Len(positions) |-> i]
    IN  [r \in 1..Len(rowKeys) |->
            LET InRow(i) == positions[i].y = rowKeys[r] IN SelectSeq(idx, InRow)]

\* typeCount of a row: the groups of tile indices per type id, ordered by the
\* first occurrence of the type id in the row (Map insertion order)
RECURSIVE TypeCount(_, _, _)
TypeCount(row, typeIds, seen) ==
    IF row = <<>> THEN <<>>
    ELSE LET ty == typeIds[Head(row)] IN
         IF ty \in seen THEN TypeCount(Tail(row), typeIds, seen)
         ELSE LET SameType(i) == typeIds[i] = ty IN
              << SelectSeq(row, SameType) >> \o TypeCount(Tail(row), typeIds, seen \cup {ty})

\* the search for a swap partner without the test on the other row
SwapInRow_CurrentRowOnly(row, otherRow, typeIds, tileToSwap) ==
    LET Ok(otherTile) ==
            /\ typeIds[otherTile] # typeIds[tileToSwap]
            /\ ~\E m \in 1..Len(row) :
                    row[m] # tileToSwap /\ typeIds[row[m]] = typeIds[otherTile]
        fit == {n \in 1..Len(otherRow) : Ok(otherRow[n])}
    IN  IF fit = {} THEN 0 ELSE otherRow[CHOOSE n \in fit : \A m \in fit : n <= m]

\* lines 334-355: the first tile of otherRow the type of tileToSwap can be
\* exchanged with (0 when the row holds none)
SwapInRow(row, otherRow, typeIds, tileToSwap) ==
    LET Ok(otherTile) ==
            LET wouldCreatePairInCurrentRow ==
                    \E m \in 1..Len(row) :
                        row[m] # tileToSwap /\ typeIds[row[m]] = typeIds[otherTile]
                wouldCreatePairInOtherRow ==
                    \E m \in 1..Len(otherRow) :
                        otherRow[m] # otherTile /\ typeIds[otherRow[m]] = typeIds[tileToSwap]
            IN  /\ typeIds[otherTile] # typeIds[tileToSwap]
                /\ ~wouldCreatePairInCurrentRow
                /\ ~wouldCreatePairInOtherRow
        fit == {n \in 1..Len(otherRow) : Ok(otherRow[n])}
    IN  IF fit = {} THEN 0 ELSE otherRow[CHOOSE n \in fit : \A m \in fit : n <= m]

\* lines 329-356: for (j = 0; j < rowKeys.length && !swapped; j++), skipping row i
RECURSIVE FindSwap(_, _, _, _, _)
FindSwap(rows, i, j, typeIds, tileToSwap) ==
    IF j > Len(rows) THEN 0
    ELSE IF j = i THEN FindSwap(rows, i, j + 1, typeIds, tileToSwap)
    ELSE LET otherTile == SwapInRow(rows[i], rows[j], typeIds, tileToSwap) IN
         IF otherTile # 0 THEN otherTile
         ELSE FindSwap(rows, i, j + 1, typeIds, tileToSwap)

\* lines 324-357: while (tilesOfType.length >= 2) pop one and try to swap it
RECURSIVE FixType(_, _, _, _)
FixType(rows, i, typeIds, tilesOfType) ==
    IF Len(tilesOfType) < 2 \/ typeIds = <<>> THEN typeIds
    ELSE LET tileToSwap == tilesOfType[Len(tilesOfType)]
             otherTile == FindSwap(rows, i, 1, typeIds, tileToSwap)
         IN  FixType(rows, i,
                     IF otherTile = 0 THEN typeIds
                     ELSE SwapAt(typeIds, tileToSwap, otherTile),
                     SubSeq(tilesOfType, 1, Len(tilesOfType) - 1))

RECURSIVE FixTypes(_, _, _, _)
FixTypes(rows, i, typeIds, groups) ==
    IF groups = <<>> \/ typeIds = <<>> THEN typeIds
    ELSE FixTypes(rows, i, FixType(rows, i, typeIds, Head(groups)), Tail(groups))

\* lines 311-360: the rows in rowKeys order
RECURSIVE FixRows(_, _, _)
FixRows(rows, i, typeIds) ==
    IF i > Len(rows) \/ typeIds = <<>> THEN typeIds
    ELSE FixRows(rows, i + 1,
                 FixTypes(rows, i, typeIds, TypeCount(rows[i], typeIds, {})))

\* lines 346-352, the swaps in the order the loops of lines 311-358 make them:
\* the two tiles and the type ids the swap found
SwapsFrom(rest, tileToSwap, otherTile, typeIds) ==
    IF otherTile = 0 THEN rest
    ELSE << [tileToSwap |-> tileToSwap, otherTile |-> otherTile, typeIds |-> typeIds] >>
         \o rest

\* the swaps for one type of a row; FixType on the last two tiles of
\* tilesOfType pops and handles the last one only
RECURSIVE TypeSwaps(_, _, _, _)
TypeSwaps(rows, i, typeIds, tilesOfType) ==
    IF Len(tilesOfType) < 2 \/ typeIds = <<>> THEN <<>>
    ELSE SwapsFrom(TypeSwaps(rows, i,
                             FixType(rows, i, typeIds,
                                     SubSeq(tilesOfType,
                                            Len(tilesOfType) - 1, Len(tilesOfType))),
                             SubSeq(tilesOfType, 1, Len(tilesOfType) - 1)),
                   tilesOfType[Len(tilesOfType)],
                   FindSwap(rows, i, 1, typeIds, tilesOfType[Len(tilesOfType)]),
                   typeIds)

RECURSIVE GroupSwaps(_, _, _, _)
GroupSwaps(rows, i, typeIds, groups) ==
    IF groups = <<>> \/ typeIds = <<>> THEN <<>>
    ELSE TypeSwaps(rows, i, typeIds, Head(groups))
         \o GroupSwaps(rows, i, FixType(rows, i, typeIds, Head(groups)), Tail(groups))

RECURSIVE RowSwaps(_, _, _)
RowSwaps(rows, i, typeIds) ==
    IF i > Len(rows) \/ typeIds = <<>> THEN <<>>
    ELSE GroupSwaps(rows, i, typeIds, TypeCount(rows[i], typeIds, {}))
         \o RowSwaps(rows, i + 1,
                     FixTypes(rows, i, typeIds, TypeCount(rows[i], typeIds, {})))

\* lines 286-298: the type ids as first assigned, tilePairs[i % tilePairs.length]
InitialTypeIds(positions, seed) ==
    LET posCount == Len(positions)
        pool == IF posCount = FullSetSize THEN [tilePairs |-> FullPool, k |-> 0]
                ELSE DynamicPool(posCount, <<>>, STANDARD_TILES, seed, 0)
        tilePairs == FisherYates(pool.tilePairs, Len(pool.tilePairs), seed, pool.k)
    IN  [i \in 1..posCount |-> tilePairs[((i - 1) % Len(tilePairs)) + 1].id]

generateBoard(layoutId, seed) ==
    LET lay == LAYOUTS[FindLayout(layoutId)]
        positions == lay.positions
        typeIds == FixRows(TilesByRow(positions), 1, InitialTypeIds(positions, seed))
    IN  [tiles |-> [i \in 1..Len(positions) |-> Tile(i, typeIds[i], positions[i], FALSE)],
         layout |-> lay.id,
         tileIdCounter |-> Len(positions)]

-----------------------------------------------------------------------------
(* Reverse construction and shuffle: src/src/game/engine.ts 131-243, 368-406 *)
(* The operators return the set of results the random draws allow.  A       *)
(* position is named by its index in `positions`: the code compares        *)
(* position objects by identity.                                           *)

\* the attempts shuffleBoard makes before it falls back
MaxShuffleAttempts == 20

\* the index of the draw after the k-th (not tracked when every outcome is explored)
NextDraw(rng, k) == IF rng = AnyRandom THEN 0 ELSE k + 1

\* the availability test without the test for a position on top
isPositionAvailable_NoTopTest(pos, occupiedPositions) ==
    LET hasLeft ==
            \E i \in 1..Len(occupiedPositions) :
                LET other == occupiedPositions[i] IN
                   /\ other.z = pos.z
                   /\ Abs(other.y - pos.y) < OverlapTolerance
                   /\ other.x < pos.x
                   /\ pos.x - other.x < SideReach
        hasRight ==
            \E i \in 1..Len(occupiedPositions) :
                LET other == occupiedPositions[i] IN
                   /\ other.z = pos.z
                   /\ Abs(other.y - pos.y) < OverlapTolerance
                   /\ other.x > pos.x
                   /\ other.x - pos.x < SideReach
    IN  ~hasLeft \/ ~hasRight

\* the availability test asking for both sides to be open
isPositionAvailable_BothSides(pos, occupiedPositions) ==
    LET Near(other) ==
            /\ other.z = pos.z
            /\ Abs(other.y - pos.y) < OverlapTolerance
            /\ other.x # pos.x
            /\ Abs(other.x - pos.x) < SideReach
        hasTop ==
            \E i \in 1..Len(occupiedPositions) :
                LET other == occupiedPositions[i] IN
                   /\ other.z > pos.z
                   /\ Abs(other.x - pos.x) < OverlapTolerance
                   /\ Abs(other.y - pos.y) < OverlapTolerance
    IN  ~hasTop /\ ~\E i \in 1..Len(occupiedPositions) : Near(occupiedPositions[i])

\* lines 135-159
isPositionAvailable(pos, occupiedPositions) ==
    LET hasTop ==
            \E i \in 1..Len(occupiedPositions) :
                LET other == occupiedPositions[i] IN
                   /\ other.z > pos.z
                   /\ Abs(other.x - pos.x) < OverlapTolerance
                   /\ Abs(other.y - pos.y) < OverlapTolerance
        hasLeft ==
            \E i \in 1..Len(occupiedPositions) :
                LET other == occupiedPositions[i] IN
                   /\ other.z = pos.z
                   /\ Abs(other.y - pos.y) < OverlapTolerance
                   /\ other.x < pos.x
                   /\ pos.x - other.x < SideReach
        hasRight ==
            \E i \in 1..Len(occupiedPositions) :
                LET other == occupiedPositions[i] IN
                   /\ other.z = pos.z
                   /\ Abs(other.y - pos.y) < OverlapTolerance
                   /\ other.x > pos.x
                   /\ other.x - pos.x < SideReach
    IN  IF hasTop THEN FALSE ELSE ~hasLeft \/ ~hasRight

\* lines 171-176: typeGroups, the types per key (matchGroup || id) in the order
\* the keys first occur
RECURSIVE TypeGroups(_, _, _)
TypeGroups(types, from, seen) ==
    IF from > Len(types) THEN <<>>
    ELSE LET key == IF types[from].matchGroup # "" THEN types[from].matchGroup
                    ELSE types[from].id
             SameKey(t) == (IF t.matchGroup # "" THEN t.matchGroup ELSE t.id) = key
         IN  IF key \in seen THEN TypeGroups(types, from + 1, seen)
             ELSE << SelectSeq(types, SameKey) >> \o TypeGroups(types, from + 1, seen \cup {key})

\* the pair loop stopping one pair early
RECURSIVE PopPairs_LeaveTwo(_)
PopPairs_LeaveTwo(group) ==
    IF Len(group) < 4 THEN <<>>
    ELSE << << group[Len(group)], group[Len(group) - 1] >> >>
         \o PopPairs_LeaveTwo(SubSeq(group, 1, Len(group) - 2))

\* the pair loop pushing the popped type twice
RECURSIVE PopPairs_SameTwice(_)
PopPairs_SameTwice(group) ==
    IF Len(group) < 2 THEN <<>>
    ELSE << << group[Len(group)], group[Len(group)] >> >>
         \o PopPairs_SameTwice(SubSeq(group, 1, Len(group) - 2))

\* lines 180-182: while (group.length >= 2) push [group.pop(), group.pop()]
RECURSIVE PopPairs(_)
PopPairs(group) ==
    IF Len(group) < 2 THEN <<>>
    ELSE << << group[Len(group)], group[Len(group) - 1] >> >>
         \o PopPairs(SubSeq(group, 1, Len(group) - 2))

MatchingPairs(availableTypes) ==
    LET groups == TypeGroups(availableTypes, 1, {}) IN
    Flatten([g \in 1..Len(groups) |-> PopPairs(groups[g])])

\* the Fisher-Yates loop from index i down, from the k-th draw on: the set of
\* [arr, k] it can end with
RECURSIVE ShuffleSet(_, _, _, _)
ShuffleSet(arr, i, rng, k) ==
    IF i < 2 \/ arr = <<>> THEN { [arr |-> arr, k |-> k] }
    ELSE UNION { ShuffleSet(SwapAt(arr, i, j + 1), i - 1, rng, NextDraw(rng, k)) :
                    j \in RandChoices(rng, k, i) }

\* the partner test accepting every other position
Separated_Any(p, candidate1) == TRUE

\* line 217: the partner is on another row or on another layer
Separated(p, candidate1) ==
    Abs(p.y - candidate1.y) >= 10 \/ Abs(p.z - candidate1.z) >= 1

\* lines 212-227: the first candidate of `shuffled` with a separated partner
\* (0 when there is none)
FirstCandidate(positions, shuffled) ==
    LET HasPartner(n) ==
            \E m \in 1..Len(shuffled) :
                shuffled[m] # shuffled[n]
                /\ Separated(positions[shuffled[m]], positions[shuffled[n]])
        fit == {n \in 1..Len(shuffled) : HasPartner(n)}
    IN  IF fit = {} THEN 0 ELSE shuffled[CHOOSE n \in fit : \A m \in fit : n <= m]

\* lines 191-240, one round of the loop: the pair [type1, type2] is placed from
\* the state st = [occupied, available, finalTiles, counter, k]; the results
\* are the next states (ok) and the aborts (return null)
PlacePair(positions, pair, st, rng) ==
    LET occupiedPositions == [i \in 1..Len(st.occupied) |-> positions[st.occupied[i]]]
        Placeable(i) == isPositionAvailable(positions[i], occupiedPositions)
        placeablePositions == SelectSeq(st.available, Placeable)
        Abort(k) == [ok |-> FALSE, occupied |-> st.occupied, available |-> st.available,
                     finalTiles |-> st.finalTiles, counter |-> st.counter, k |-> k]
    IN  IF Len(placeablePositions) < 2 THEN { Abort(st.k) }
        ELSE UNION {
               LET pos1 == FirstCandidate(positions, sh.arr) IN
               IF pos1 = 0 THEN { Abort(sh.k) }
               ELSE LET IsSeparated(p) ==
                            p # pos1 /\ Separated(positions[p], positions[pos1])
                        separatedPositions == SelectSeq(sh.arr, IsSeparated)
                    IN  { LET pos2 == separatedPositions[j + 1] IN
                          [ok |-> TRUE,
                           occupied |-> st.occupied \o <<pos1, pos2>>,
                           available |->
                               LET once == RemoveAt(st.available, IndexOf(st.available, pos1))
                               IN  RemoveAt(once, IndexOf(once, pos2)),
                           finalTiles |-> st.finalTiles \o
                               << Tile(st.counter + 1, pair[1].id, positions[pos1], FALSE),
                                  Tile(st.counter + 2, pair[2].id, positions[pos2], FALSE) >>,
                           counter |-> st.counter + 2,
                           k |-> NextDraw(rng, sh.k)] :
                          j \in RandChoices(rng, sh.k, Len(separatedPositions)) } :
               sh \in ShuffleSet(placeablePositions, Len(placeablePositions), rng, st.k) }

\* lines 191-242: the loop over matchingPairs from pair p on
RECURSIVE PlaceFrom(_, _, _, _, _)
PlaceFrom(positions, matchingPairs, p, st, rng) ==
    IF p > Len(matchingPairs) \/ ~st.ok THEN { st }
    ELSE UNION { PlaceFrom(positions, matchingPairs, p + 1, nxt, rng) :
                    nxt \in PlacePair(positions, matchingPairs[p], st, rng) }

\* the results [ok, finalTiles, counter, k]: ok is FALSE for a null return
assignSolvableTypes(positions, availableTypes, counter, rng, k) ==
    LET pairs == MatchingPairs(availableTypes) IN
    UNION { PlaceFrom(positions, sp.arr, 1,
                      [ok |-> TRUE, occupied |-> <<>>,
                       available |-> [i \in 1..Len(positions) |-> i],
                       finalTiles |-> <<>>, counter |-> counter, k |-> sp.k],
                      rng) :
              sp \in ShuffleSet(pairs, Len(pairs), rng, k) }

\* lines 389-405: the fallback, a random permutation of the types; a type id
\* the catalog does not hold leaves types shorter than positions, and
\* types[i].id then throws
Fallback(positions, types, removedTiles, counter, rng, k) ==
    IF Len(types) < Len(positions)
    THEN { [path |-> "TypeError", tiles |-> <<>>, tileIdCounter |-> counter + Len(types) + 1] }
    ELSE { [path |-> "fallback",
            tiles |-> [i \in 1..Len(positions) |->
                          Tile(counter + i, sh.arr[i].id, positions[i], FALSE)]
                      \o removedTiles,
            tileIdCounter |-> counter + Len(positions)] :
            sh \in ShuffleSet(types, Len(types), rng, k) }

\* lines 379-387: the attempts from the given one on; `from` is the set of
\* [counter, k] the program can be in before it
RECURSIVE Attempts(_, _, _, _, _, _)
Attempts(attempt, from, positions, types, removedTiles, rng) ==
    IF from = {} THEN {}
    ELSE IF attempt >= MaxShuffleAttempts
    THEN UNION { Fallback(positions, types, removedTiles, f.counter, rng, f.k) : f \in from }
    ELSE LET results == UNION { assignSolvableTypes(positions, types, f.counter, rng, f.k) :
                                   f \in from }
             solved == { [path |-> "solvable",
                          tiles |-> r.finalTiles \o removedTiles,
                          tileIdCounter |-> r.counter] : r \in {q \in results : q.ok} }
             failed == { [counter |-> r.counter, k |-> r.k] : r \in {q \in results : ~q.ok} }
         IN  solved \cup Attempts(attempt + 1, failed, positions, types, removedTiles, rng)

\* the boards shuffleBoard can return, each with the path taken and the id
\* counter it leaves
shuffleBoard(boardTiles, counter, rng) ==
    LET activeTiles == Active(boardTiles)
        removedTiles == Removed(boardTiles)
        positions == [i \in 1..Len(activeTiles) |->
                         Pos(activeTiles[i].x, activeTiles[i].y, activeTiles[i].z)]
        Known(t) == t # Undefined
        types == SelectSeq([i \in 1..Len(activeTiles) |->
                               getTileTypeById(activeTiles[i].typeId)], Known)
    IN  Attempts(0, { [counter |-> counter, k |-> 0] }, positions, types, removedTiles, rng)

-----------------------------------------------------------------------------
(* The game: the caller keeps the board and the history, pushes the        *)
(* current tiles before each move and pops on undo (spec.md 4.4).          *)

\* the moves played on one board before it is left alone
MaxSteps == 2

\* generateBoard() without a layout id: a falsy layoutId (line 255)
NoLayoutId == ""

\* the layout ids a game is asked for: the catalog's, one it does not hold, and none
LayoutIds == {LAYOUTS[i].id : i \in 1..Len(LAYOUTS)} \cup {"atlantis", NoLayoutId}

Init ==
    /\ tiles = <<>>
    /\ layout = "none"
    /\ tileIdCounter = 0
    /\ history = <<>>
    /\ op = "load"
    /\ arg = <<>>
    /\ ret = <<>>

GenerateBoard ==
    /\ op = "load"
    /\ \E seed \in Seeds, layoutId \in LayoutIds :
       \E board \in {generateBoard(layoutId, seed)} :
          /\ tiles' = board.tiles
          /\ layout' = board.layout
          /\ tileIdCounter' = board.tileIdCounter
          /\ arg' = <<layoutId, seed>>
    /\ history' = <<>>
    /\ op' = "generateBoard"
    /\ ret' = <<>>

\* a click on the second tile of a pair the match finder lists
RemovePair ==
    /\ op # "load"
    /\ Len(history) < MaxSteps
    /\ \E pair \in Range(findAllMatches(tiles)) :
          /\ tiles' = removeTilePair(tiles, pair[1].id, pair[2].id)
          /\ arg' = << pair[1].id, pair[2].id >>
    /\ history' = Append(history, tiles)
    /\ op' = "removeTilePair"
    /\ ret' = <<>>
    /\ UNCHANGED <<layout, tileIdCounter>>

Undo ==
    /\ Len(history) > 0
    /\ tiles' = undoMove(tiles, history[Len(history)])
    /\ history' = SubSeq(history, 1, Len(history) - 1)
    /\ op' = "undoMove"
    /\ arg' = <<>>
    /\ ret' = <<>>
    /\ UNCHANGED <<layout, tileIdCounter>>

\* line 446: the tilesRemaining of a new game
InitialTilesRemaining == 144

\* lines 439-453: the new game state (startTime, the clock reading, left out)
createGameState(lay, seed) ==
    [board |-> generateBoard(lay.id, seed),
     selectedTileId |-> Null,
     history |-> <<>>,
     tilesRemaining |-> InitialTilesRemaining,
     matchesMade |-> 0,
     isComplete |-> FALSE,
     isStuck |-> FALSE,
     hintPair |-> Null]

\* a new game on a layout of the catalog: ret holds the fields of the state
\* other than the board and the history
CreateGameState ==
    /\ op = "load"
    /\ \E seed \in Seeds, l \in 1..Len(LAYOUTS) :
       \E state \in {createGameState(LAYOUTS[l], seed)} :
          /\ tiles' = state.board.tiles
          /\ layout' = state.board.layout
          /\ tileIdCounter' = state.board.tileIdCounter
          /\ history' = state.history
          /\ ret' = [selectedTileId |-> state.selectedTileId,
                     tilesRemaining |-> state.tilesRemaining,
                     matchesMade |-> state.matchesMade,
                     isComplete |-> state.isComplete,
                     isStuck |-> state.isStuck,
                     hintPair |-> state.hintPair]
          /\ arg' = <<LAYOUTS[l].id, seed>>
    /\ op' = "createGameState"

Next == GenerateBoard \/ RemovePair \/ Undo \/ CreateGameState

Spec == Init /\ [][Next]_vars

-----------------------------------------------------------------------------
(* isFreeTile on small collections                                         *)

\* the largest collection handed to a pure function
MaxTiles == 3

\* grid positions, in tenths: neighbours at 0.5 and 1.0, strangers at 1.5 and 2.0
GridX == <<0, 5, 10, 20>>
GridY == <<0, 5, 10>>
GridZ == <<0, 1, 2>>

Grid ==
    [k \in 1..(Len(GridX) * Len(GridY) * Len(GridZ)) |->
        Pos(GridX[((k - 1) % Len(GridX)) + 1],
            GridY[(((k - 1) \div Len(GridX)) % Len(GridY)) + 1],
            GridZ[((k - 1) \div (Len(GridX) * Len(GridY))) + 1])]

\* the collection is listed in grid order (two tiles may share a position)
Ascending(at) == \A i \in 1..(Len(at) - 1) : at[i] <= at[i + 1]

\* tiles of one type on grid positions, any of them removed
InitFree ==
    /\ \E n \in 1..MaxTiles :
       \E at \in [1..n -> 1..Len(Grid)] :
          /\ Ascending(at)
          /\ \E gone \in SUBSET (1..n) :
                tiles = [i \in 1..n |-> Tile(i, "circles-1", Grid[at[i]], i \in gone)]
    /\ layout = "none"
    /\ tileIdCounter = Len(tiles)
    /\ history = <<>>
    /\ op = "given"
    /\ arg = <<>>
    /\ ret = <<>>

CallIsFreeTile ==
    /\ op = "given"
    /\ \E i \in 1..Len(tiles) :
          /\ arg' = <<i>>
          /\ ret' = isFreeTile(tiles[i], tiles)
    /\ op' = "isFreeTile"
    /\ UNCHANGED <<tiles, layout, tileIdCounter, history>>

\* the position of the tile asked about, against the positions of the other
\* tiles, on a collection without removed tiles (positions carry no flag)
CallIsPositionAvailable ==
    /\ op = "given"
    /\ \A i \in 1..Len(tiles) : ~tiles[i].isRemoved
    /\ \E i \in 1..Len(tiles) :
          LET NotAsked(t) == t.id # tiles[i].id
              occupied == Active(SelectSeq(tiles, NotAsked))
          IN  /\ arg' = <<i>>
              /\ ret' = isPositionAvailable(
                            Pos(tiles[i].x, tiles[i].y, tiles[i].z),
                            [j \in 1..Len(occupied) |->
                                Pos(occupied[j].x, occupied[j].y, occupied[j].z)])
    /\ op' = "isPositionAvailable"
    /\ UNCHANGED <<tiles, layout, tileIdCounter, history>>

NextFree == CallIsFreeTile \/ CallIsPositionAvailable

SpecFree == InitFree /\ [][NextFree]_vars

-----------------------------------------------------------------------------
(* The match finder, the hint and removeTilePair on small collections       *)

\* a row of three and a tile on top of its middle
MatchGrid == << Pos(0, 0, 0), Pos(10, 0, 0), Pos(20, 0, 0), Pos(10, 0, 1) >>

\* a suit tile, two seasons, and a type id the catalog does not hold
MatchTypeIds == << "circles-1", "season-spring", "season-summer", "joker" >>

\* the ids handed to removeTilePair: the collection's, and two it does not hold
CallIds == 0..(MaxTiles + 1)

\* tiles on distinct positions in any order, of any of the types, any of them
\* removed, with ids ascending or descending along the collection; the
\* collection may be empty
InitMatch ==
    /\ \E n \in 0..MaxTiles :
       \E at \in [1..n -> 1..Len(MatchGrid)] :
          /\ \A i, j \in 1..n : i # j => at[i] # at[j]
          /\ \E ty \in [1..n -> 1..Len(MatchTypeIds)], gone \in SUBSET (1..n),
                descending \in BOOLEAN :
                tiles = [i \in 1..n |->
                            Tile(IF descending THEN n + 1 - i ELSE i,
                                 MatchTypeIds[ty[i]], MatchGrid[at[i]], i \in gone)]
    /\ layout = "none"
    /\ tileIdCounter = Len(tiles)
    /\ history = <<>>
    /\ op = "given"
    /\ arg = <<>>
    /\ ret = <<>>

CallFindAllMatches ==
    /\ op = "given"
    /\ arg' = <<>>
    /\ ret' = findAllMatches(tiles)
    /\ op' = "findAllMatches"
    /\ UNCHANGED <<tiles, layout, tileIdCounter, history>>

CallGetHint ==
    /\ op = "given"
    /\ arg' = <<>>
    /\ ret' = getHint(tiles)
    /\ op' = "getHint"
    /\ UNCHANGED <<tiles, layout, tileIdCounter, history>>

CallRemoveTilePair ==
    /\ op = "given"
    /\ \E tile1Id, tile2Id \in CallIds :
          /\ arg' = <<tile1Id, tile2Id>>
          /\ ret' = removeTilePair(tiles, tile1Id, tile2Id)
    /\ op' = "removeTilePair"
    /\ UNCHANGED <<tiles, layout, tileIdCounter, history>>

CallCheckWin ==
    /\ op = "given"
    /\ arg' = <<>>
    /\ ret' = checkWin(tiles)
    /\ op' = "checkWin"
    /\ UNCHANGED <<tiles, layout, tileIdCounter, history>>

CallCheckStuck ==
    /\ op = "given"
    /\ arg' = <<>>
    /\ ret' = checkStuck(tiles)
    /\ op' = "checkStuck"
    /\ UNCHANGED <<tiles, layout, tileIdCounter, history>>

NextMatch ==
    \/ CallFindAllMatches
    \/ CallGetHint
    \/ CallRemoveTilePair
    \/ CallCheckWin
    \/ CallCheckStuck

SpecMatch == InitMatch /\ [][NextMatch]_vars

-----------------------------------------------------------------------------
(* Shuffle and play on small boards, every outcome of every draw explored   *)

\* the matching pairs on a small board (ShuffleGrid holds two pairs at most)
MaxPairs == 2

\* the highest value of the id counter at which a shuffle is still started,
\* unless another game has just taken the counter
MaxTileId == 4

\* a row of three, a tile on top of its middle, and a tile of a second row;
\* the tiles of a board lie in the order of this list
ShuffleGrid ==
    << Pos(10, 0, 0), Pos(10, 0, 1), Pos(0, 0, 0), Pos(0, 10, 0), Pos(20, 0, 0) >>

ShuffleTypeIds == << "circles-1", "season-spring", "season-summer" >>

\* every tile has an odd number of other tiles that match it: the tiles come in
\* pairs, as on a generated board and after every removal
InPairs(typeIds) ==
    \A i \in 1..Len(typeIds) :
        Cardinality({j \in 1..Len(typeIds) :
                        tilesMatch(getTileTypeById(typeIds[i]),
                                   getTileTypeById(typeIds[j]))}) % 2 = 0

\* what is left of a game: tiles in pairs on distinct positions
InitShuffle ==
    /\ \E n \in 1..MaxPairs :
       \E at \in [1..(2 * n) -> 1..Len(ShuffleGrid)] :
          /\ \A i \in 1..(2 * n - 1) : at[i] < at[i + 1]
          /\ \E ty \in [1..(2 * n) -> 1..Len(ShuffleTypeIds)] :
                /\ InPairs([i \in 1..(2 * n) |-> ShuffleTypeIds[ty[i]]])
                /\ tiles = [i \in 1..(2 * n) |->
                               Tile(i, ShuffleTypeIds[ty[i]], ShuffleGrid[at[i]], FALSE)]
    /\ layout = "none"
    /\ tileIdCounter = Len(tiles)
    /\ history = <<>>
    /\ op = "given"
    /\ arg = <<>>
    /\ ret = <<>>

\* the shuffle button: ret tells the path shuffleBoard took
ShuffleBoard ==
    /\ op # "load"
    /\ Len(history) < MaxSteps
    /\ tileIdCounter <= MaxTileId \/ op = "generateBoard"
    /\ \E board \in shuffleBoard(tiles, tileIdCounter, AnyRandom) :
          /\ tiles' = IF board.path = "TypeError" THEN tiles ELSE board.tiles
          /\ tileIdCounter' = board.tileIdCounter
          /\ ret' = board.path
    /\ history' = Append(history, tiles)
    /\ op' = "shuffleBoard"
    /\ arg' = <<>>
    /\ UNCHANGED layout

NextShuffle == ShuffleBoard \/ RemovePair \/ Undo

SpecShuffle == InitShuffle /\ [][NextShuffle]_vars

-----------------------------------------------------------------------------
(* Two games in one process: the module-level id counter is shared           *)

\* what is left of a game on a full layout whose board was shuffled once: the
\* tiles carry ids above those of the generated board
InitGames ==
    /\ \E n \in 1..MaxPairs :
       \E at \in [1..(2 * n) -> 1..Len(ShuffleGrid)] :
          /\ \A i \in 1..(2 * n - 1) : at[i] < at[i + 1]
          /\ \E ty \in [1..(2 * n) -> 1..Len(ShuffleTypeIds)] :
                /\ InPairs([i \in 1..(2 * n) |-> ShuffleTypeIds[ty[i]]])
                /\ tiles = [i \in 1..(2 * n) |->
                               Tile(FullSetSize + i, ShuffleTypeIds[ty[i]],
                                    ShuffleGrid[at[i]], FALSE)]
    /\ layout = "none"
    /\ tileIdCounter = FullSetSize + Len(tiles)
    /\ history = <<>>
    /\ op = "given"
    /\ arg = <<>>
    /\ ret = <<>>

\* generateBoard for the other game, after a move of this one: it resets the
\* counter and draws an id for every position of its layout; this game's
\* board and history are not touched
GenerateOtherBoard ==
    /\ op = "removeTilePair"
    /\ \E layoutId \in LayoutIds :
          /\ tileIdCounter' = Len(LAYOUTS[FindLayout(layoutId)].positions)
          /\ arg' = <<layoutId>>
    /\ op' = "generateBoard"
    /\ ret' = <<>>
    /\ UNCHANGED <<tiles, layout, history>>

NextGames == GenerateOtherBoard \/ ShuffleBoard \/ RemovePair \/ Undo

SpecGames == InitGames /\ [][NextGames]_vars

-----------------------------------------------------------------------------
(* The match predicate on the types of the catalog                           *)

\* any two types of the catalog
InitCatalog ==
    /\ tiles = <<>>
    /\ layout = "none"
    /\ tileIdCounter = 0
    /\ history = <<>>
    /\ op = "given"
    /\ \E type1, type2 \in Range(ALL_TILE_TYPES) : arg = <<type1, type2>>
    /\ ret = <<>>

CallTilesMatch ==
    /\ op = "given"
    /\ ret' = tilesMatch(arg[1], arg[2])
    /\ op' = "tilesMatch"
    /\ UNCHANGED <<tiles, layout, tileIdCounter, history, arg>>

NextCatalog == CallTilesMatch

SpecCatalog == InitCatalog /\ [][NextCatalog]_vars

-----------------------------------------------------------------------------
(* Claims *)

\* some sequence of removals of pairs the match finder lists removes every tile
RECURSIVE Clearable(_)
Clearable(ts) ==
    \/ checkWin(ts)
    \/ \E pair \in Range(findAllMatches(ts)) :
          Clearable(removeTilePair(ts, pair[1].id, pair[2].id))

\* C1: every board generateBoard returns, for every layout of the catalog, is
\* clearable: some sequence of removeTilePair calls on pairs findAllMatches
\* lists ends with checkWin true.
C1_GeneratedBoardClearable == op = "generateBoard" => Clearable(tiles)

\* C2: from a generated board, removing any listed pair at every step never
\* passes through a collection for which checkStuck is true (so, as every
\* removal takes two tiles away, play ends with every tile removed).
C2_NeverStuck == op \in {"generateBoard", "removeTilePair", "undoMove"} => ~checkStuck(tiles)


\* C3: a board shuffleBoard returns through its non-fallback path is
\* clearable: some sequence of removals of listed pairs removes every tile.
C3_ShuffledBoardClearable ==
    (op = "shuffleBoard" /\ ret = "solvable") => Clearable(tiles)

\* the tile isFreeTile was called on, and the other tiles that are not removed
Asked == tiles[arg[1]]
Others == {j \in 1..Len(tiles) : j # arg[1] /\ ~tiles[j].isRemoved}

\* neighbours as the claims word them (0.9 and 1.1 grid units are 9 and 11)
LeftOfAsked(j) ==
    /\ tiles[j].z = Asked.z
    /\ Abs(tiles[j].y - Asked.y) < 9
    /\ tiles[j].x < Asked.x
    /\ Asked.x - tiles[j].x < 11
RightOfAsked(j) ==
    /\ tiles[j].z = Asked.z
    /\ Abs(tiles[j].y - Asked.y) < 9
    /\ tiles[j].x > Asked.x
    /\ tiles[j].x - Asked.x < 11
AboveAsked(j) ==
    /\ tiles[j].z > Asked.z
    /\ Abs(tiles[j].x - Asked.x) < 9
    /\ Abs(tiles[j].y - Asked.y) < 9

\* C4: for a tile that is not removed, isFreeTile is false when it has a
\* neighbour on its left and another on its right, and true when no tile is
\* above it and at least one of the two sides has no neighbour.
C4_LeftOrRightOpen ==
    (op = "isFreeTile" /\ ~Asked.isRemoved) =>
        /\ ((\E j \in Others : LeftOfAsked(j)) /\ (\E j \in Others : RightOfAsked(j)))
              => ret = FALSE
        /\ ( /\ ~\E j \in Others : AboveAsked(j)
             /\ (~\E j \in Others : LeftOfAsked(j)) \/ (~\E j \in Others : RightOfAsked(j)) )
              => ret = TRUE

\* a tile with a neighbour on one side only and nothing above was found free
C4_Witness ==
    /\ op = "isFreeTile"
    /\ ~Asked.isRemoved
    /\ \E j \in Others : LeftOfAsked(j)
    /\ ~\E j \in Others : RightOfAsked(j)
    /\ ~\E j \in Others : AboveAsked(j)
    /\ ret = TRUE

\* C5: isFreeTile is false for a tile that has another non-removed tile on any
\* higher layer with |dx| < 0.9 and |dy| < 0.9, whatever its sides are like.
C5_BlockedFromAbove ==
    (op = "isFreeTile" /\ ~Asked.isRemoved /\ \E j \in Others : AboveAsked(j))
        => ret = FALSE

\* a tile with open sides was found blocked by a tile two layers up, at a
\* half-integer offset in x and y
C5_Witness ==
    /\ op = "isFreeTile"
    /\ ~Asked.isRemoved
    /\ ret = FALSE
    /\ ~\E j \in Others : LeftOfAsked(j) \/ RightOfAsked(j)
    /\ \E j \in Others :
          /\ tiles[j].z = Asked.z + 2
          /\ tiles[j].x = Asked.x + 5
          /\ tiles[j].y = Asked.y + 5
    /\ \A j \in Others : AboveAsked(j) => tiles[j].z = Asked.z + 2

\* a removed tile is not free, is in no listed pair and in no hint, and the
\* other tiles are as free with it as without it
RemovedInert ==
    \A i \in 1..Len(tiles) :
        tiles[i].isRemoved =>
           /\ ~isFreeTile(tiles[i], tiles)
           /\ \A pair \in Range(findAllMatches(tiles)) :
                 pair[1] # tiles[i] /\ pair[2] # tiles[i]
           /\ getHint(tiles) # Null =>
                 tiles[i].id \notin {getHint(tiles)[1], getHint(tiles)[2]}
           /\ \A j \in 1..Len(tiles) :
                 j # i => isFreeTile(tiles[j], tiles)
                            = isFreeTile(tiles[j], RemoveAt(tiles, i))

\* a removal or a shuffle keeps every removed tile, removed, in the collection
RemovedRetained ==
    op' \in {"removeTilePair", "shuffleBoard"} =>
        \A i \in 1..Len(tiles) :
            tiles[i].isRemoved => \E j \in 1..Len(tiles') : tiles'[j] = tiles[i]

\* C6: a removed tile is inert and retained: never free, never in a pair of
\* findAllMatches or getHint, never blocking another tile, and still in the
\* collection, still removed, after every removeTilePair and shuffleBoard.
C6_RemovedInertAndRetained == [](RemovedInert) /\ [][RemovedRetained]_vars

\* after a shuffle a removed tile lies right above a tile that is free
C6_Witness ==
    /\ op = "shuffleBoard"
    /\ \E i, j \in 1..Len(tiles) :
          /\ tiles[i].isRemoved
          /\ ~tiles[j].isRemoved
          /\ tiles[i].x = tiles[j].x /\ tiles[i].y = tiles[j].y
          /\ tiles[i].z > tiles[j].z
          /\ isFreeTile(tiles[j], tiles)

\* the tiles at a and b are two free tiles whose types the catalog holds and
\* tilesMatch accepts
FreeMatch(a, b) ==
    /\ a # b
    /\ isFreeTile(tiles[a], tiles)
    /\ isFreeTile(tiles[b], tiles)
    /\ getTileTypeById(tiles[a].typeId) # Undefined
    /\ getTileTypeById(tiles[b].typeId) # Undefined
    /\ tilesMatch(getTileTypeById(tiles[a].typeId), getTileTypeById(tiles[b].typeId))

\* C7: findAllMatches returns every unordered pair of distinct free matching
\* tiles exactly once, and nothing else: no pair with a removed tile, a tile
\* that is not free, or a tile of a type the catalog does not hold.
C7_ExactlyTheFreeMatches ==
    op = "findAllMatches" =>
        /\ \A a, b \in 1..Len(tiles) :
              (a < b /\ FreeMatch(a, b)) =>
                 Cardinality({p \in 1..Len(ret) :
                                 {ret[p][1], ret[p][2]} = {tiles[a], tiles[b]}}) = 1
        /\ \A p \in 1..Len(ret) :
              \E a, b \in 1..Len(tiles) :
                 /\ FreeMatch(a, b)
                 /\ ret[p][1] = tiles[a]
                 /\ ret[p][2] = tiles[b]

\* one pair was returned and a third tile of a matching type, not removed but
\* covered, was left out
C7_Witness ==
    /\ op = "findAllMatches"
    /\ Len(ret) = 1
    /\ \E i \in 1..Len(tiles) :
          /\ ~tiles[i].isRemoved
          /\ ~isFreeTile(tiles[i], tiles)
          /\ tiles[i].typeId = ret[1][1].typeId

\* C8: findAllMatches lists the pairs in the order of the double loop over the
\* free tiles in collection order; getHint returns the ids of the first listed
\* pair, and none exactly when no pair is listed; asking again gives the same.
C8_OrderAndHint ==
    /\ op = "findAllMatches" =>
          /\ \A p \in 1..Len(ret) :
                IndexOf(tiles, ret[p][1]) < IndexOf(tiles, ret[p][2])
          /\ \A p, q \in 1..Len(ret) :
                p < q =>
                   \/ IndexOf(tiles, ret[p][1]) < IndexOf(tiles, ret[q][1])
                   \/ /\ IndexOf(tiles, ret[p][1]) = IndexOf(tiles, ret[q][1])
                      /\ IndexOf(tiles, ret[p][2]) < IndexOf(tiles, ret[q][2])
    /\ op = "getHint" =>
          /\ (ret = Null) <=> (Len(findAllMatches(tiles)) = 0)
          /\ ret # Null =>
                ret = << findAllMatches(tiles)[1][1].id, findAllMatches(tiles)[1][2].id >>
          /\ getHint(tiles) = ret

\* a hint was given on a collection with several pairs, listed against the
\* order of the ids
C8_Witness ==
    /\ op = "getHint"
    /\ Len(findAllMatches(tiles)) > 1
    /\ ret = << findAllMatches(tiles)[1][1].id, findAllMatches(tiles)[1][2].id >>
    /\ ret[1] > ret[2]
    /\ ret # << findAllMatches(tiles)[Len(findAllMatches(tiles))][1].id,
                findAllMatches(tiles)[Len(findAllMatches(tiles))][2].id >>

\* C9: removeTilePair returns a collection of the same length and order in
\* which every tile with one of the two ids is removed and every other tile is
\* unchanged, and leaves the collection it was given as it was.
C9_RemoveFrame ==
    [][ op' = "removeTilePair" =>
          /\ tiles' = tiles
          /\ Len(ret') = Len(tiles)
          /\ \A i \in 1..Len(tiles) :
                /\ ret'[i].id = tiles[i].id
                /\ ret'[i].typeId = tiles[i].typeId
                /\ ret'[i].x = tiles[i].x
                /\ ret'[i].y = tiles[i].y
                /\ ret'[i].z = tiles[i].z
                /\ tiles[i].id \in {arg'[1], arg'[2]} => ret'[i].isRemoved
                /\ tiles[i].id \notin {arg'[1], arg'[2]} => ret'[i] = tiles[i] ]_vars

\* two tiles were removed by the call, a third, not removed, was left alone
C9_Witness ==
    /\ op = "removeTilePair"
    /\ arg[1] # arg[2]
    /\ \E i, j, k \in 1..Len(tiles) :
          /\ tiles[i].id = arg[1] /\ ~tiles[i].isRemoved /\ ret[i].isRemoved
          /\ tiles[j].id = arg[2] /\ ~tiles[j].isRemoved /\ ret[j].isRemoved
          /\ k \notin {i, j} /\ ~tiles[k].isRemoved /\ ret[k] = tiles[k]

\* the id names no tile of the collection, or one that is removed already
AbsentOrRemoved(id) ==
    \A i \in 1..Len(tiles) : tiles[i].id = id => tiles[i].isRemoved

\* C10: removeTilePair is idempotent and total: a second call with the same
\* ids changes nothing more; an id that is absent or already removed changes
\* nothing for that id, and the call returns a collection also when id1 = id2.
C10_RemoveIdempotent ==
    op = "removeTilePair" =>
        /\ Len(ret) = Len(tiles)
        /\ removeTilePair(ret, arg[1], arg[2]) = ret
        /\ AbsentOrRemoved(arg[1]) => ret = removeTilePair(tiles, arg[2], arg[2])
        /\ AbsentOrRemoved(arg[2]) => ret = removeTilePair(tiles, arg[1], arg[1])
        /\ (AbsentOrRemoved(arg[1]) /\ AbsentOrRemoved(arg[2])) => ret = tiles

\* a call with an absent id and the id of a tile on the board removed that tile
C10_Witness ==
    /\ op = "removeTilePair"
    /\ \A i \in 1..Len(tiles) : tiles[i].id # arg[1]
    /\ \E i \in 1..Len(tiles) :
          tiles[i].id = arg[2] /\ ~tiles[i].isRemoved /\ ret[i].isRemoved
    /\ \E i \in 1..Len(tiles) : tiles[i].isRemoved


\* C11: with the current tiles pushed before each move (removeTilePair or
\* shuffleBoard), undoMove on the last history entry gives back the tiles as
\* they were right before the last move, field by field, and no move or undo
\* alters an entry pushed earlier.
C11_UndoRoundTrip ==
    [][ /\ op' \in {"removeTilePair", "shuffleBoard"} =>
              /\ Len(history') = Len(history) + 1
              /\ undoMove(tiles', history'[Len(history')]) = tiles
        /\ op' = "undoMove" =>
              /\ Len(history) > 0
              /\ Len(tiles') = Len(history[Len(history)])
              /\ \A i \in 1..Len(tiles') :
                    LET was == history[Len(history)][i] IN
                       /\ tiles'[i].id = was.id
                       /\ tiles'[i].typeId = was.typeId
                       /\ tiles'[i].x = was.x /\ tiles'[i].y = was.y /\ tiles'[i].z = was.z
                       /\ tiles'[i].isRemoved = was.isRemoved
        /\ \A i \in 1..Len(history) :
              i <= Len(history') => history'[i] = history[i] ]_vars

\* the second of two moves was undone: the board is the one the first move, a
\* removal, left, and the entry pushed before that removal is still in history
C11_Witness ==
    /\ op = "undoMove"
    /\ Len(history) = 1
    /\ tiles # history[1]
    /\ \E i \in 1..Len(tiles) : tiles[i].isRemoved
    /\ Len(tiles) = Len(history[1])
    /\ \A i \in 1..Len(history[1]) : ~history[1][i].isRemoved


\* C12: checkWin is true exactly when every tile is removed (so also on the
\* empty collection), checkStuck exactly when some tile is not removed and
\* findAllMatches lists no pair, and the two are never both true.
C12_WinAndStuck ==
    /\ op = "checkWin" => (ret <=> \A i \in 1..Len(tiles) : tiles[i].isRemoved)
    /\ op = "checkStuck" =>
          (ret <=> /\ \E i \in 1..Len(tiles) : ~tiles[i].isRemoved
                   /\ Len(findAllMatches(tiles)) = 0)
    /\ op \in {"checkWin", "checkStuck"} => ~(checkWin(tiles) /\ checkStuck(tiles))

\* checkStuck answered no on a collection with every tile removed, which lists
\* no pair and is won
C12_Witness ==
    /\ op = "checkStuck"
    /\ ret = FALSE
    /\ Len(tiles) > 0
    /\ \A i \in 1..Len(tiles) : tiles[i].isRemoved
    /\ Len(findAllMatches(tiles)) = 0
    /\ checkWin(tiles)


\* the type ids of the tiles of ts, each with the number of tiles that carry it
TypeBag(ts) ==
    [ty \in {ts[i].typeId : i \in 1..Len(ts)} |->
        Cardinality({i \in 1..Len(ts) : ts[i].typeId = ty})]

PositionBag(ts) ==
    [p \in {Pos(ts[i].x, ts[i].y, ts[i].z) : i \in 1..Len(ts)} |->
        Cardinality({i \in 1..Len(ts) : Pos(ts[i].x, ts[i].y, ts[i].z) = p})]

\* C14: on a board a game can reach, shuffleBoard returns as many tiles as it
\* was given, the tiles that are not removed lie on exactly the positions that
\* were occupied before, one per position, and the layout is the same.
C14_ShuffleKeepsPositions ==
    [][ op' = "shuffleBoard" =>
          /\ Len(tiles') = Len(tiles)
          /\ PositionBag(Active(tiles')) = PositionBag(Active(tiles))
          /\ layout' = layout ]_vars

\* after a removal, a non-fallback shuffle of the two tiles left, with the two
\* removed ones kept beside them
C14_Witness ==
    /\ op = "shuffleBoard"
    /\ ret = "solvable"
    /\ Len(Active(tiles)) = 2
    /\ Len(Removed(tiles)) = 2
    /\ Len(history) = 2
    /\ tiles # history[2]


\* C15: on the non-fallback path the two tiles placed together (the tiles
\* 2k-1 and 2k of the returned collection, which lists the placed tiles in
\* placement order before the removed ones) are at least one row or one layer
\* apart: never on the same row of the same layer.
C15_PairsSeparated ==
    (op = "shuffleBoard" /\ ret = "solvable") =>
        \A k \in 1..(Len(Active(tiles)) \div 2) :
            LET p1 == tiles[2 * k - 1]
                p2 == tiles[2 * k]
            IN  /\ ~p1.isRemoved /\ ~p2.isRemoved
                /\ Abs(p1.y - p2.y) >= 10 \/ Abs(p1.z - p2.z) >= 1
                /\ ~(p1.y = p2.y /\ p1.z = p2.z)

\* two pairs were placed, one across two rows of a layer and one across two
\* layers of a row
C15_Witness ==
    /\ op = "shuffleBoard"
    /\ ret = "solvable"
    /\ Len(Active(tiles)) = 4
    /\ tiles[1].z = tiles[2].z /\ tiles[1].y # tiles[2].y
    /\ tiles[3].y = tiles[4].y /\ tiles[3].z # tiles[4].z


\* C16: on a board of any layout of the catalog, however removals, shuffles
\* and undos have changed it, no two tiles that are not removed have the same
\* (x, y, z).
C16_NoSharedPosition ==
    \A i, j \in 1..Len(tiles) :
        (i # j /\ ~tiles[i].isRemoved /\ ~tiles[j].isRemoved) =>
            ~(tiles[i].x = tiles[j].x /\ tiles[i].y = tiles[j].y /\ tiles[i].z = tiles[j].z)


\* C17: generateBoard returns a board for every layout id, also for none and
\* for one the catalog does not hold (both give the first layout of the
\* catalog): the layout is the catalog's, there is exactly one tile per
\* position of it, in order, none removed, each of a type the catalog holds.
C17_GenerateBoardTotal ==
    op = "generateBoard" =>
        \E l \in 1..Len(LAYOUTS) :
           /\ layout = LAYOUTS[l].id
           /\ (\E i \in 1..Len(LAYOUTS) : LAYOUTS[i].id = arg[1]) => layout = arg[1]
           /\ (~\E i \in 1..Len(LAYOUTS) : LAYOUTS[i].id = arg[1]) => l = 1
           /\ Len(tiles) = Len(LAYOUTS[l].positions)
           /\ \A i \in 1..Len(tiles) :
                 /\ ~tiles[i].isRemoved
                 /\ Pos(tiles[i].x, tiles[i].y, tiles[i].z) = LAYOUTS[l].positions[i]
                 /\ \E n \in 1..Len(ALL_TILE_TYPES) : ALL_TILE_TYPES[n].id = tiles[i].typeId

\* a board was asked for with an id the catalog does not hold and is a turtle
C17_Witness ==
    /\ op = "generateBoard"
    /\ arg[1] = "atlantis"
    /\ layout = "turtle"
    /\ Len(tiles) = FullSetSize


\* C18: tilesMatch(a, b) is true exactly when the ids are equal or both types
\* have the same non-empty matchGroup; over the catalog it is reflexive,
\* symmetric and transitive; two seasons match, two flowers match, a season
\* and a flower do not, and two standard types of different ids do not.
C18_MatchPredicate ==
    op = "tilesMatch" =>
        LET a == arg[1]
            b == arg[2]
        IN  /\ ret <=> (a.id = b.id \/ (a.matchGroup # "" /\ a.matchGroup = b.matchGroup))
            /\ a = b => ret
            /\ ret = tilesMatch(b, a)
            /\ \A c \in Range(ALL_TILE_TYPES) : (ret /\ tilesMatch(b, c)) => tilesMatch(a, c)
            /\ (a.category = "seasons" /\ b.category = "seasons") => ret
            /\ (a.category = "flowers" /\ b.category = "flowers") => ret
            /\ (a.category = "seasons" /\ b.category = "flowers") => ~ret
            /\ (a.category = "flowers" /\ b.category = "seasons") => ~ret
            /\ (a \in Range(STANDARD_TILES) /\ b \in Range(STANDARD_TILES) /\ a.id # b.id)
                  => ~ret

\* two seasons of different ids were found to match
C18_Witness ==
    /\ op = "tilesMatch"
    /\ arg[1].id = "season-spring"
    /\ arg[2].id = "season-winter"
    /\ ret = TRUE


\* the tiles of the board that carry the type id
TilesOfType(typeId) == Cardinality({i \in 1..Len(tiles) : tiles[i].typeId = typeId})

\* C19: on a layout of exactly 144 positions generateBoard puts each of the
\* 34 standard type ids on exactly 4 tiles and each of the 8 bonus type ids
\* (4 seasons, 4 flowers) on exactly 1 tile.
C19_FullSetCounts ==
    (op = "generateBoard" /\ Len(LAYOUTS[FindLayout(layout)].positions) = 144) =>
        /\ Len(STANDARD_TILES) = 34
        /\ Len(seasons) = 4 /\ Len(flowers) = 4
        /\ Len(tiles) = 144
        /\ \A n \in 1..Len(STANDARD_TILES) : TilesOfType(STANDARD_TILES[n].id) = 4
        /\ \A n \in 1..Len(seasons) : TilesOfType(seasons[n].id) = 1
        /\ \A n \in 1..Len(flowers) : TilesOfType(flowers[n].id) = 1

\* a fortress of 144 tiles was dealt, with one plum and one winter on it
C19_Witness ==
    /\ op = "generateBoard"
    /\ layout = "fortress"
    /\ Len(tiles) = 144
    /\ TilesOfType("flower-plum") = 1
    /\ TilesOfType("season-winter") = 1
    /\ TilesOfType("circles-1") = 4


\* the type ids on the board
UsedTypeIds == {tiles[i].typeId : i \in 1..Len(tiles)}

\* C20: on a layout of fewer than 144 positions (the bridge) generateBoard
\* deals standard types only, one tile per position, and every type id it uses
\* is on 4 tiles, except that at most one may be on 2.
C20_DynamicSubset ==
    (op = "generateBoard" /\ Len(LAYOUTS[FindLayout(layout)].positions) < 144) =>
        /\ Len(tiles) = Len(LAYOUTS[FindLayout(layout)].positions)
        /\ \A ty \in UsedTypeIds :
              /\ \E n \in 1..Len(STANDARD_TILES) : STANDARD_TILES[n].id = ty
              /\ getTileTypeById(ty).matchGroup = ""
              /\ TilesOfType(ty) \in {2, 4}
        /\ Cardinality({ty \in UsedTypeIds : TilesOfType(ty) = 2}) <= 1

\* a bridge of 116 tiles was dealt from 29 of the 34 standard types
C20_Witness ==
    /\ op = "generateBoard"
    /\ layout = "bridge"
    /\ Len(tiles) = 116
    /\ Cardinality(UsedTypeIds) = 29
    /\ \A ty \in UsedTypeIds : TilesOfType(ty) = 4


\* C21: the operations are pure: a second call with the same arguments and
\* the same random choices returns an equal result, tile ids included.  For
\* shuffleBoard: the board it returned is among the boards a second call on
\* the same input returns.
C21_SecondCallEqual ==
    (op = "shuffleBoard" /\ ret # "TypeError") =>
        \E board \in shuffleBoard(history[Len(history)], tileIdCounter, AnyRandom) :
            board.tiles = tiles


\* C22: a board that shuffleBoard returns from its fallback can be told from
\* a board of the reverse construction.  The result carries tiles and layout
\* only, and the caller does not see the id counter (an earlier shuffle that
\* was undone has advanced it): the fallback's board is never a board the
\* reverse construction returns for the same input board.
C22_FallbackDetectable ==
    (op = "shuffleBoard" /\ ret = "fallback") =>
        ~ \E board \in shuffleBoard(history[Len(history)],
                                    tileIdCounter - Len(Active(tiles)), AnyRandom) :
              board.path = "solvable" /\ board.tiles = tiles


\* C23: every layout of the catalog defines 144 positions: a generated board
\* holds 144 tiles in 72 matching pairs (a tile has an odd number of other
\* tiles that match it), and validateLayout accepts the board's layout.
C23_FullBoardOnEveryLayout ==
    op = "generateBoard" =>
        /\ Len(LAYOUTS[FindLayout(layout)].positions) = FullSetSize
        /\ validateLayout(LAYOUTS[FindLayout(layout)])
        /\ Len(tiles) = FullSetSize
        /\ \A i \in 1..Len(tiles) :
              Cardinality({j \in 1..Len(tiles) :
                              tilesMatch(getTileTypeById(tiles[i].typeId),
                                         getTileTypeById(tiles[j].typeId))}) % 2 = 0


\* C24: the tiles of a board, removed ones included, carry distinct ids after
\* any sequence of removals, shuffles and undos, also when a generateBoard of
\* another game in the same process comes in between.
C24_TileIdsUnique ==
    \A i, j \in 1..Len(tiles) : i # j => tiles[i].id # tiles[j].id


\* C25: a non-null result of assignSolvableTypes lists the pairs in placement
\* order (the tiles 2k-1 and 2k of the board a non-fallback shuffle returns).
\* The two tiles of a pair have matching types and lie on two positions, and
\* each of the two positions was available with respect to the positions of
\* the earlier pairs: none of those lies on top of it, and not both its left
\* and its right side hold one of them.  A pair for which fewer than two
\* available positions remain is never placed: the result is then null.
EarlierAbove(p, k) ==
    \E e \in 1..(2 * k - 2) :
        /\ tiles[e].z > p.z
        /\ Abs(tiles[e].x - p.x) <= 5
        /\ Abs(tiles[e].y - p.y) <= 5

EarlierBeside(p, k, side) ==
    \E e \in 1..(2 * k - 2) :
        /\ tiles[e].z = p.z
        /\ Abs(tiles[e].y - p.y) <= 5
        /\ (tiles[e].x - p.x) * side \in 1..10

C25_PlacedOnAvailable ==
    (op = "shuffleBoard" /\ ret = "solvable") =>
        \A k \in 1..(Len(Active(tiles)) \div 2) :
            LET p1 == tiles[2 * k - 1]
                p2 == tiles[2 * k]
            IN  /\ tilesMatch(getTileTypeById(p1.typeId), getTileTypeById(p2.typeId))
                /\ <<p1.x, p1.y, p1.z>> # <<p2.x, p2.y, p2.z>>
                /\ \A p \in {p1, p2} :
                      /\ ~EarlierAbove(p, k)
                      /\ ~(EarlierBeside(p, k, -1) /\ EarlierBeside(p, k, 1))

\* the second pair was placed beside a tile of the first pair, on one side only
C25_Witness ==
    /\ op = "shuffleBoard"
    /\ ret = "solvable"
    /\ Len(Active(tiles)) = 4
    /\ EarlierBeside(tiles[3], 2, -1)
    /\ ~EarlierBeside(tiles[3], 2, 1)


\* C26: isPositionAvailable(p, S) is isFreeTile of a tile at p that is not
\* removed, within the collection of that tile and one tile that is not
\* removed on each position of S.
C26_AvailableIsFree ==
    op = "isPositionAvailable" =>
        LET atP == Tile(Asked.id, Asked.typeId, Pos(Asked.x, Asked.y, Asked.z), FALSE)
            onS == SortedSeq(Others)
            collection ==
                <<atP>> \o [j \in 1..Len(onS) |-> tiles[onS[j]]]
        IN  ret = isFreeTile(atP, collection)

\* a position between two occupied ones with nothing on top is not available
C26_Witness ==
    /\ op = "isPositionAvailable"
    /\ \E j \in Others : LeftOfAsked(j)
    /\ \E j \in Others : RightOfAsked(j)
    /\ ~\E j \in Others : AboveAsked(j)
    /\ ret = FALSE


\* C27: every swap of the refinement that follows the placement in
\* generateBoard exchanges the type ids of two tiles of different rows and
\* different types, and after it neither of the two tiles has its type id in
\* common with another tile of its row; ids, positions and the type ids with
\* their multiplicities stay as placed.  Hence the board has no more pairs of
\* tiles of one row and one type id than the placement had.
SameRowPairs(positions, typeIds) ==
    Cardinality({pr \in (1..Len(positions)) \X (1..Len(positions)) :
                    /\ pr[1] < pr[2]
                    /\ positions[pr[1]].y = positions[pr[2]].y
                    /\ typeIds[pr[1]] = typeIds[pr[2]]})

PairedInRow(positions, typeIds, t) ==
    \E c \in 1..Len(positions) :
        c # t /\ positions[c].y = positions[t].y /\ typeIds[c] = typeIds[t]

C27_SwapsRefine ==
    op = "generateBoard" =>
        LET positions == LAYOUTS[FindLayout(layout)].positions
            placed == InitialTypeIds(positions, arg[2])
            swaps == RowSwaps(TilesByRow(positions), 1, placed)
            After(s) == SwapAt(swaps[s].typeIds, swaps[s].tileToSwap, swaps[s].otherTile)
        IN  /\ \A s \in 1..Len(swaps) :
                  LET a == swaps[s].tileToSwap
                      b == swaps[s].otherTile
                  IN  /\ positions[a].y # positions[b].y
                      /\ swaps[s].typeIds[a] # swaps[s].typeIds[b]
                      /\ ~PairedInRow(positions, After(s), a)
                      /\ ~PairedInRow(positions, After(s), b)
                      /\ swaps[s].typeIds = IF s = 1 THEN placed ELSE After(s - 1)
            /\ \A i \in 1..Len(tiles) :
                  /\ tiles[i].id = i
                  /\ Pos(tiles[i].x, tiles[i].y, tiles[i].z) = positions[i]
                  /\ tiles[i].typeId = (IF swaps = <<>> THEN placed ELSE After(Len(swaps)))[i]
            /\ \A ty \in Range(placed) \cup {tiles[i].typeId : i \in 1..Len(tiles)} :
                  Cardinality({i \in 1..Len(tiles) : tiles[i].typeId = ty})
                      = Cardinality({i \in 1..Len(placed) : placed[i] = ty})
            /\ SameRowPairs(positions, [i \in 1..Len(tiles) |-> tiles[i].typeId])
                  <= SameRowPairs(positions, placed)

\* the refinement swapped at least twice and left fewer same-row pairs
C27_Witness ==
    /\ op = "generateBoard"
    /\ LET positions == LAYOUTS[FindLayout(layout)].positions
           placed == InitialTypeIds(positions, arg[2])
       IN  /\ Len(RowSwaps(TilesByRow(positions), 1, placed)) >= 2
           /\ SameRowPairs(positions, [i \in 1..Len(tiles) |-> tiles[i].typeId])
                 < SameRowPairs(positions, placed)


\* C28: in every state a game reaches by removing listed pairs, shuffling and
\* undoing, every tile that is not removed has an odd number of other tiles
\* that are not removed and match it: each match class holds an even number of
\* tiles, and so does the board.  The pair building of shuffleBoard therefore
\* drops no tile: a shuffle returns as many tiles that are not removed as it
\* was given.  (The boards of InitShuffle are in pairs, as the boards
\* generateBoard deals from its pools of four and two of a class are.)
MatchClass(ts, i) ==
    {j \in 1..Len(ts) :
        /\ ~ts[j].isRemoved
        /\ tilesMatch(getTileTypeById(ts[i].typeId), getTileTypeById(ts[j].typeId))}

C28_ClassesEven ==
    /\ \A i \in 1..Len(tiles) :
          ~tiles[i].isRemoved => Cardinality(MatchClass(tiles, i)) % 2 = 0
    /\ Len(Active(tiles)) % 2 = 0
    /\ (op = "shuffleBoard" /\ ret # "TypeError") =>
          Len(Active(tiles)) = Len(Active(history[Len(history)]))

\* a shuffle after a removal: a pair is gone, and the shuffle kept the pair left
C28_Witness ==
    /\ op = "shuffleBoard"
    /\ ret # "TypeError"
    /\ Len(Removed(tiles)) = 2
    /\ Len(Active(tiles)) = 2
    /\ tiles[1].typeId # tiles[2].typeId


\* C29: a board that shuffleBoard returns from its non-fallback path, with two
\* or more tiles that are not removed, is not stuck: findAllMatches lists a
\* pair on it.
C29_ShuffledBoardHasMove ==
    (op = "shuffleBoard" /\ ret = "solvable" /\ Len(Active(tiles)) >= 2) =>
        /\ Len(findAllMatches(tiles)) >= 1
        /\ ~checkStuck(tiles)


\* C30: the state createGameState returns for a layout of the catalog agrees
\* with its board: tilesRemaining is the number of tiles that are not removed,
\* matchesMade is 0, the history is empty, no tile is selected, there is no
\* hint, and isComplete and isStuck are checkWin and checkStuck of the tiles.
C30_StateAgreesWithBoard ==
    op = "createGameState" =>
        /\ ret.tilesRemaining = Len(Active(tiles))
        /\ ret.matchesMade = 0
        /\ history = <<>>
        /\ ret.selectedTileId = Null
        /\ ret.hintPair = Null
        /\ ret.isComplete = checkWin(tiles)
        /\ ret.isStuck = checkStuck(tiles)

=============================================================================
